---- MODULE Spec2Model ----
(***************************************************************************)
(* State-log playback (gz::sim::systems::LogPlayback).                     *)
(*                                                                         *)
(* The module models the playback system of src/systems/log/LogPlayback.cc *)
(* as a state machine: the process-wide `started` flag, the private data   *)
(* of every LogPlayback instance, the entity-component world the instances *)
(* write to, and the host loop that hands an UpdateInfo to every instance. *)
(*                                                                         *)
(* Strings (paths, URIs) are sequences of tokens; a token that begins with *)
(* a path separator is listed in SlashTokens.  The entity-component        *)
(* manager, the log store and the file system are collaborators whose code *)
(* is not part of LogPlayback.cc; they are modelled from their documented  *)
(* interface.                                                              *)
(***************************************************************************)
EXTENDS Integers, Sequences, FiniteSets, TLC

(***************************************************************************)
(* Bounds of the model.                                                    *)
(***************************************************************************)
\* simulation time runs over 0..MaxTime
MaxTime == 3
\* a state log holds at most MaxLogLen messages
MaxLogLen == 3
\* number of LogPlayback instances loaded into the host
NumInst == 2

Instances == 1..NumInst
Times == 0..MaxTime

(***************************************************************************)
(* Strings.                                                                *)
(***************************************************************************)
SlashTokens == {"/", "/log", "/old", "/bad", "/rec", "/mesh", "/tex", "/cwd"}

filePrefix == <<"file://">>

\* std::string::compare(0, p.length(), p) == 0 on the string s
StartsWith(s, p) == Len(p) <= Len(s) /\ SubSeq(s, 1, Len(p)) = p

\* _uri[0] == '/'
StartsWithSlash(s) == Len(s) > 0 /\ Head(s) \in SlashTokens

\* std::string::substr(n) counted in tokens
SubstrFrom(s, n) == SubSeq(s, n + 1, Len(s))

\* common::joinPaths: one separator between the two parts
joinPaths(a, b) ==
  IF b = << >> THEN a
  ELSE IF a = << >> THEN b
  ELSE IF Head(b) \in SlashTokens THEN a \o b
  ELSE a \o <<"/">> \o b

\* common::absPath: a relative path is prefixed with the working directory
absPath(p) ==
  IF p = << >> \/ StartsWithSlash(p) THEN p ELSE joinPaths(<<"/cwd">>, p)

\* std::string::find_last_of("."): index of the last "." token, 0 for npos
RECURSIVE FindLastDot(_, _)
FindLastDot(s, i) ==
  IF i = 0 THEN 0
  ELSE IF s[i] = "." THEN i
  ELSE FindLastDot(s, i - 1)

\* common::lowercase on an extension
lowercase(s) == [i \in DOMAIN s |-> IF s[i] = "ZIP" THEN "zip" ELSE s[i]]

\* common::basename: the last path segment with what follows it
RECURSIVE LastSlash(_, _)
LastSlash(s, i) ==
  IF i = 0 THEN 0
  ELSE IF s[i] \in SlashTokens THEN i
  ELSE LastSlash(s, i - 1)

basename(s) ==
  LET k == LastSlash(s, Len(s))
  IN  IF k = 0 THEN s ELSE SubSeq(s, k, Len(s))

(***************************************************************************)
(* The entity-component world.                                             *)
(***************************************************************************)
Ents == {"W", "A", "B"}
kNullEntity == "kNullEntity"

CTypes == {"World", "ParticleEmitterCmd", "Geometry", "Material",
           "LogPlaybackStatistics"}

NoComps == [c \in {} |-> FALSE]

\* An empty world: no entity, no component, no removal request, no
\* one-time-change mark.
EmptyEcm ==
  [ents |-> {}, comp |-> [e \in Ents |-> NoComps], toRemove |-> {},
   changed |-> {}]

HasComp(ecm, e, c) == e \in ecm.ents /\ c \in DOMAIN ecm.comp[e]

\* EntityComponentManager::Each<C>: the entities that hold component C
EachWith(ecm, c) == {e \in ecm.ents : c \in DOMAIN ecm.comp[e]}

\* set or create one component of an entity
SetComp(ecm, e, c, v) ==
  [ecm EXCEPT !.comp[e] =
     [k \in (DOMAIN @) \cup {c} |-> IF k = c THEN v ELSE @[k]]]

\* EntityComponentManager::RequestRemoveEntity: removal is deferred
RequestRemoveEntity(ecm, e) == [ecm EXCEPT !.toRemove = @ \cup {e}]

\* DiffApplier on one entity message: a removal schedules the entity for
\* removal and writes nothing; otherwise the entity is created on first
\* mention and every listed component is created or replaced.
ApplyEntityMsg(ecm, em) ==
  IF em.remove
  THEN RequestRemoveEntity(ecm, em.id)
  ELSE [ecm EXCEPT
          !.ents = @ \cup {em.id},
          !.comp[em.id] =
             [k \in (DOMAIN @) \cup (DOMAIN em.comps) |->
                IF k \in DOMAIN em.comps THEN em.comps[k] ELSE @[k]]]

\* EntityComponentManager::SetState: the entity messages in message order
RECURSIVE SetState(_, _)
SetState(ecm, ems) ==
  IF ems = << >> THEN ecm
  ELSE SetState(ApplyEntityMsg(ecm, Head(ems)), Tail(ems))

\* EntityComponentManager::EntityByComponents(components::World())
WorldEntityOf(ecm) ==
  IF EachWith(ecm, "World") = {} THEN kNullEntity
  ELSE CHOOSE e \in EachWith(ecm, "World") : TRUE

\* End of a host iteration: requested removals are carried out and the
\* one-time-change marks are cleared.
ProcessRemovals(ecm) ==
  [ents |-> ecm.ents \ ecm.toRemove,
   comp |-> [e \in Ents |->
               IF e \in ecm.toRemove THEN NoComps ELSE ecm.comp[e]],
   toRemove |-> {},
   changed |-> {}]

(***************************************************************************)
(* The log store.                                                          *)
(***************************************************************************)
StateType == "gz.msgs.SerializedState"
StateMapType == "gz.msgs.SerializedStateMap"
StringType == "gz.msgs.StringMsg"
OtherType == "gz.msgs.Pose"

IsStateType(t) == t = StateType \/ t = StateMapType

\* indices of the messages of log whose time stamp lies in [from, to)
InWindow(log, from, to) ==
  {i \in DOMAIN log : from <= log[i].time /\ log[i].time < to}

\* Log::QueryMessages(AllTopics({from, to})): the indices in log order
RECURSIVE SortedIdx(_)
SortedIdx(S) ==
  IF S = {} THEN << >>
  ELSE LET m == CHOOSE x \in S : \A y \in S : x <= y
       IN  <<m>> \o SortedIdx(S \ {m})

QueryMessages(log, from, to) == SortedIdx(InWindow(log, from, to))

\* Log::QueryMessages(): every message
QueryAll(log) == SortedIdx(DOMAIN log)

\* Log::StartTime, Log::EndTime: first and last time stamp, zero when empty
StartTime(log) == IF log = << >> THEN 0 ELSE log[1].time
EndTime(log) == IF log = << >> THEN 0 ELSE log[Len(log)].time

(***************************************************************************)
(* LogPlaybackPrivate.                                                     *)
(***************************************************************************)
\* The private data of a freshly constructed instance.  life records
\* whether Configure has run and whether the destructor has run.
NewInstance ==
  [life |-> "constructed",
   logPath |-> << >>,
   extDest |-> << >>,
   log |-> "null",
   instStarted |-> FALSE,
   printedEnd |-> FALSE,
   doReplaceResourceURIs |-> TRUE,
   prevParticleEmitterCmds |-> NoComps]

\* The messages an instance reads through its log handle; a handle whose
\* Open failed yields no message.
LogOf(d, msgs) == IF d.log = "open" THEN msgs ELSE << >>

\* PrependLogPath without the test that a file:// URI is already prepended.
PrependLogPathNoGuard(logPath, flag, exists, uri) ==
  IF ~flag
  THEN [uri |-> uri, flag |-> flag]
  ELSE IF StartsWith(uri, filePrefix) \/ StartsWithSlash(uri)
       THEN LET pathNoPrefix ==
                  IF StartsWithSlash(uri) THEN uri
                  ELSE SubstrFrom(uri, Len(filePrefix))
                pathPrepended == joinPaths(logPath, pathNoPrefix)
            IN  IF pathPrepended \notin exists
                THEN [uri |-> uri, flag |-> FALSE]
                ELSE [uri |-> filePrefix \o pathPrepended, flag |-> flag]
       ELSE [uri |-> uri, flag |-> flag]

\* PrependLogPath that gives back the scheme the URI came with.
PrependLogPathKeepsScheme(logPath, flag, exists, uri) ==
  IF ~flag
  THEN [uri |-> uri, flag |-> flag]
  ELSE IF \/ /\ StartsWith(uri, filePrefix)
             /\ ~StartsWith(SubstrFrom(uri, Len(filePrefix)), logPath)
          \/ StartsWithSlash(uri)
       THEN LET pathNoPrefix ==
                  IF StartsWithSlash(uri) THEN uri
                  ELSE SubstrFrom(uri, Len(filePrefix))
                pathPrepended == joinPaths(logPath, pathNoPrefix)
            IN  IF pathPrepended \notin exists
                THEN [uri |-> uri, flag |-> FALSE]
                ELSE [uri |-> IF StartsWithSlash(uri) THEN pathPrepended
                              ELSE filePrefix \o pathPrepended,
                      flag |-> flag]
       ELSE [uri |-> uri, flag |-> flag]

\* PrependLogPath that does not switch the rewriting off when the
\* prepended path is missing.
PrependLogPathForgets(logPath, flag, exists, uri) ==
  IF ~flag
  THEN [uri |-> uri, flag |-> flag]
  ELSE IF \/ /\ StartsWith(uri, filePrefix)
             /\ ~StartsWith(SubstrFrom(uri, Len(filePrefix)), logPath)
          \/ StartsWithSlash(uri)
       THEN LET pathNoPrefix ==
                  IF StartsWithSlash(uri) THEN uri
                  ELSE SubstrFrom(uri, Len(filePrefix))
                pathPrepended == joinPaths(logPath, pathNoPrefix)
            IN  IF pathPrepended \notin exists
                THEN [uri |-> uri, flag |-> flag]
                ELSE [uri |-> filePrefix \o pathPrepended, flag |-> flag]
       ELSE [uri |-> uri, flag |-> flag]

\* LogPlaybackPrivate::PrependLogPath.  Returns the URI and the value of
\* doReplaceResourceURIs after the call.
PrependLogPath(logPath, flag, exists, uri) ==
  IF ~flag
  THEN [uri |-> uri, flag |-> flag]
  ELSE IF \/ /\ StartsWith(uri, filePrefix)
             /\ ~StartsWith(SubstrFrom(uri, Len(filePrefix)), logPath)
          \/ StartsWithSlash(uri)
       THEN LET pathNoPrefix ==
                  IF StartsWithSlash(uri) THEN uri
                  ELSE SubstrFrom(uri, Len(filePrefix))
                pathPrepended == joinPaths(logPath, pathNoPrefix)
            IN  IF pathPrepended \notin exists
                THEN [uri |-> uri, flag |-> FALSE]
                ELSE [uri |-> filePrefix \o pathPrepended, flag |-> flag]
       ELSE [uri |-> uri, flag |-> flag]

\* The order in which Each visits the entities.
EntOrder == <<"W", "A", "B">>

\* The URI a component carries (mesh URI of a geometry, script URI of a
\* material); empty when the geometry is no mesh.
UriOf(c, v) == IF c = "Geometry" /\ v.type # "MESH" THEN << >> ELSE v.uri

\* One pass of Each<C> of ReplaceResourceURIs over the entities of todo.
\* acc holds the world, doReplaceResourceURIs and the calls of
\* PrependLogPath made so far: the URI passed, the URI returned and the
\* flag before and after the call.
RECURSIVE RewriteEach(_, _, _, _, _)
RewriteEach(acc, logPath, exists, c, todo) ==
  IF todo = << >> THEN acc
  ELSE LET e == Head(todo)
       IN  IF HasComp(acc.ecm, e, c) /\ UriOf(c, acc.ecm.comp[e][c]) # << >>
           THEN LET v == acc.ecm.comp[e][c]
                    r == PrependLogPath(logPath, acc.flag, exists, v.uri)
                IN  RewriteEach(
                      [ecm |-> SetComp(acc.ecm, e, c, [v EXCEPT !.uri = r.uri]),
                       flag |-> r.flag,
                       calls |-> Append(acc.calls,
                                        [uri |-> v.uri, ret |-> r.uri,
                                         flagIn |-> acc.flag,
                                         flagOut |-> r.flag])],
                      logPath, exists, c, Tail(todo))
           ELSE RewriteEach(acc, logPath, exists, c, Tail(todo))

\* LogPlaybackPrivate::ReplaceResourceURIs: geometries, then materials.
ReplaceResourceURIs(ecm, logPath, flag, exists) ==
  IF ~flag
  THEN [ecm |-> ecm, flag |-> flag, calls |-> << >>]
  ELSE LET g == RewriteEach([ecm |-> ecm, flag |-> flag, calls |-> << >>],
                            logPath, exists, "Geometry", EntOrder)
       IN  RewriteEach(g, logPath, exists, "Material", EntOrder)

\* FirstState without the break: the scan runs on to the last state message.
RECURSIVE LastState(_, _)
LastState(msgs, batch) ==
  IF batch = << >> THEN 0
  ELSE IF IsStateType(msgs[batch[Len(batch)]].type) THEN batch[Len(batch)]
  ELSE LastState(msgs, SubSeq(batch, 1, Len(batch) - 1))

\* Index in msgs of the first message of batch whose type is a state type,
\* 0 when the batch holds none (the scan loop of Start).
RECURSIVE FirstState(_, _)
FirstState(msgs, batch) ==
  IF batch = << >> THEN 0
  ELSE IF IsStateType(msgs[Head(batch)].type) THEN Head(batch)
  ELSE FirstState(msgs, Tail(batch))

\* the state.tlog file of a log directory
DbPath(logPath) == joinPaths(logPath, <<"state.tlog">>)

\* Log::Open succeeds on every state log but the damaged one under /bad
Readable(p) == ~StartsWith(p, <<"/bad">>)

\* regular files of the file system, and the archives Zip::Extract can
\* unpack
Files == {<<"/rec", ".", "zip">>, <<"/rec", ".", "ZIP">>,
          <<"/bad", ".", "zip">>, <<"/rec", ".", "txt">>}
ZipOk == {<<"/rec", ".", "zip">>, <<"/rec", ".", "ZIP">>}

\* what an archive unpacks to, relative to the extraction directory
ArchiveContent == {<<"/rec">>, <<"/rec", "/", "state.tlog">>,
                   <<"/rec", "/mesh">>}

\* AlreadyStarted without the single-instance check.
NeverStarted(started) == FALSE

\* The single-instance check of Configure and Start: another instance has
\* been started.
AlreadyStarted(started) == started

\* NothingToPlay without the test that state.tlog exists.
NothingToPlayIfNoPath(logPath, exists) == logPath = << >>

\* Start gives up before it opens the log: no log path, or no state.tlog
\* under it.
NothingToPlay(logPath, exists) ==
  logPath = << >> \/ DbPath(logPath) \notin exists

\* MissingWorldEntity that lets Start go on without a world entity.
WorldEntityNotChecked(worldEntity, seed) == FALSE

\* MissingWorldEntity that also gives up when no seed state was found.
MissingWorldOrSeed(worldEntity, seed) ==
  worldEntity = kNullEntity \/ seed = 0

\* Start gives up after the seed scan: the world holds no world entity.
MissingWorldEntity(worldEntity, seed) == worldEntity = kNullEntity

\* Start that gives up when the state log cannot be opened.
StartFailsOnOpen(d, ecm, started, exists, msgs) ==
  IF AlreadyStarted(started)
  THEN [d |-> d, ecm |-> ecm, started |-> started, ret |-> TRUE,
        seed |-> 0, opened |-> FALSE, rewrites |-> << >>]
  ELSE IF NothingToPlay(d.logPath, exists)
  THEN [d |-> d, ecm |-> ecm, started |-> started, ret |-> FALSE,
        seed |-> 0, opened |-> FALSE, rewrites |-> << >>]
  ELSE IF ~Readable(DbPath(d.logPath))
  THEN [d |-> [d EXCEPT !.log = "unopened"], ecm |-> ecm,
        started |-> started, ret |-> FALSE,
        seed |-> 0, opened |-> TRUE, rewrites |-> << >>]
  ELSE
    LET d1 == [d EXCEPT !.log = IF Readable(DbPath(d.logPath))
                                THEN "open" ELSE "unopened"]
        batch == QueryAll(LogOf(d1, msgs))
        seed == FirstState(LogOf(d1, msgs), batch)
        ecm1 == IF seed = 0 THEN ecm ELSE SetState(ecm, msgs[seed].entities)
        worldEntity == WorldEntityOf(ecm1)
    IN  IF MissingWorldEntity(worldEntity, seed)
        THEN [d |-> d1, ecm |-> ecm1, started |-> started, ret |-> FALSE,
              seed |-> seed, opened |-> TRUE, rewrites |-> << >>]
        ELSE
          LET ecm2 == SetComp(ecm1, worldEntity, "LogPlaybackStatistics",
                              <<StartTime(LogOf(d1, msgs)),
                                EndTime(LogOf(d1, msgs))>>)
              r == ReplaceResourceURIs(ecm2, d1.logPath,
                                       d1.doReplaceResourceURIs, exists)
          IN  [d |-> [d1 EXCEPT !.doReplaceResourceURIs = r.flag,
                                !.instStarted = TRUE],
               ecm |-> r.ecm, started |-> TRUE, ret |-> TRUE,
               seed |-> seed, opened |-> TRUE, rewrites |-> r.calls]

\* LogPlaybackPrivate::Start.  exists is the set of paths present on the
\* file system, msgs the content of the state log.  seed is the index of the message applied as seed state
\* (0: none), opened tells whether a log handle was created.
Start(d, ecm, started, exists, msgs) ==
  IF AlreadyStarted(started)
  THEN [d |-> d, ecm |-> ecm, started |-> started, ret |-> TRUE,
        seed |-> 0, opened |-> FALSE, rewrites |-> << >>]
  ELSE IF NothingToPlay(d.logPath, exists)
  THEN [d |-> d, ecm |-> ecm, started |-> started, ret |-> FALSE,
        seed |-> 0, opened |-> FALSE, rewrites |-> << >>]
  ELSE
    LET d1 == [d EXCEPT !.log = IF Readable(DbPath(d.logPath))
                                THEN "open" ELSE "unopened"]
        batch == QueryAll(LogOf(d1, msgs))
        seed == FirstState(LogOf(d1, msgs), batch)
        ecm1 == IF seed = 0 THEN ecm ELSE SetState(ecm, msgs[seed].entities)
        worldEntity == WorldEntityOf(ecm1)
    IN  IF MissingWorldEntity(worldEntity, seed)
        THEN [d |-> d1, ecm |-> ecm1, started |-> started, ret |-> FALSE,
              seed |-> seed, opened |-> TRUE, rewrites |-> << >>]
        ELSE
          LET ecm2 == SetComp(ecm1, worldEntity, "LogPlaybackStatistics",
                              <<StartTime(LogOf(d1, msgs)),
                                EndTime(LogOf(d1, msgs))>>)
              r == ReplaceResourceURIs(ecm2, d1.logPath,
                                       d1.doReplaceResourceURIs, exists)
          IN  [d |-> [d1 EXCEPT !.doReplaceResourceURIs = r.flag,
                                !.instStarted = TRUE],
               ecm |-> r.ecm, started |-> TRUE, ret |-> TRUE,
               seed |-> seed, opened |-> TRUE, rewrites |-> r.calls]

\* common::uniqueDirectoryPath: a path that does not exist yet
uniqueDirectoryPath(p, exists) ==
  IF p \in exists THEN p \o <<"(1)">> ELSE p

\* LogPlaybackPrivate::ExtractStateAndResources.  exists is the file system
\* after the call.
ExtractStateAndResources(d, exists) ==
  LET extIdx == FindLastDot(d.logPath, Len(d.logPath))
      stem == IF extIdx # 0 THEN SubSeq(d.logPath, 1, extIdx - 1)
              ELSE d.logPath
      extDest == uniqueDirectoryPath(stem \o <<"_extracted">>, exists)
  IN  IF d.logPath \in ZipOk
      THEN [d |-> [d EXCEPT !.extDest = extDest,
                            !.logPath = joinPaths(extDest, basename(stem))],
            exists |-> exists \cup {extDest}
                         \cup {joinPaths(extDest, a) : a \in ArchiveContent},
            ret |-> TRUE]
      ELSE [d |-> [d EXCEPT !.extDest = extDest], exists |-> exists,
            ret |-> FALSE]

\* ConfigureOp that goes on to Start although the extraction failed.
ConfigureOpIgnoresExtract(d, ecm, started, exists, msgs, playback_path) ==
  LET d0 == [d EXCEPT !.logPath = absPath(playback_path),
                      !.life = "configured"]
      quit(dd, ex) == [d |-> dd, ecm |-> ecm, started |-> started,
                       ret |-> FALSE, seed |-> 0, opened |-> FALSE,
                       rewrites |-> << >>, start |-> FALSE, exists |-> ex]
      go(dd, ex) ==
        IF ~AlreadyStarted(started)
        THEN [start |-> TRUE, exists |-> ex]
               @@ Start(dd, ecm, started, ex, msgs)
        ELSE quit(dd, ex)
  IN  IF d0.logPath \in Files
      THEN LET extension ==
                 lowercase(SubstrFrom(d0.logPath,
                             FindLastDot(d0.logPath, Len(d0.logPath))))
           IN  IF extension # <<"zip">>
               THEN quit(d0, exists)
               ELSE LET x == ExtractStateAndResources(d0, exists)
                    IN  IF FALSE THEN quit(x.d, x.exists)
                        ELSE go(x.d, x.exists)
      ELSE go(d0, exists)

\* LogPlayback::Configure.  start tells whether Start was called.
ConfigureOp(d, ecm, started, exists, msgs, playback_path) ==
  LET d0 == [d EXCEPT !.logPath = absPath(playback_path),
                      !.life = "configured"]
      quit(dd, ex) == [d |-> dd, ecm |-> ecm, started |-> started,
                       ret |-> FALSE, seed |-> 0, opened |-> FALSE,
                       rewrites |-> << >>, start |-> FALSE, exists |-> ex]
      go(dd, ex) ==
        IF ~AlreadyStarted(started)
        THEN [start |-> TRUE, exists |-> ex]
               @@ Start(dd, ecm, started, ex, msgs)
        ELSE quit(dd, ex)
  IN  IF d0.logPath \in Files
      THEN LET extension ==
                 lowercase(SubstrFrom(d0.logPath,
                             FindLastDot(d0.logPath, Len(d0.logPath))))
           IN  IF extension # <<"zip">>
               THEN quit(d0, exists)
               ELSE LET x == ExtractStateAndResources(d0, exists)
                    IN  IF ~x.ret THEN quit(x.d, x.exists)
                        ELSE go(x.d, x.exists)
      ELSE go(d0, exists)

\* common::removeAll: the directory and everything below it
removeAll(exists, dir) == {p \in exists : ~StartsWith(p, dir)}

\* DestroyOp that clears the flag whichever instance is destroyed.
DestroyAlwaysClears(d, started, exists) ==
  [d |-> [d EXCEPT !.life = "destroyed"],
   exists |-> IF d.extDest # << >> THEN removeAll(exists, d.extDest)
              ELSE exists,
   started |-> FALSE]

\* LogPlayback::~LogPlayback
DestroyOp(d, started, exists) ==
  [d |-> [d EXCEPT !.life = "destroyed"],
   exists |-> IF d.extDest # << >> THEN removeAll(exists, d.extDest)
              ELSE exists,
   started |-> IF d.instStarted THEN FALSE ELSE started]

\* QueryWindow with the rewind branch not resetting startTime.
QueryWindowKeepsStart(info) ==
  [from |-> info.simTime - info.dt, to |-> info.simTime,
   seekRewind |-> info.dt < 0]

\* QueryWindow with startTime always at the beginning of the log.
QueryWindowFromZero(info) ==
  [from |-> 0, to |-> info.simTime, seekRewind |-> info.dt < 0]

\* The query window and the rewind decision of Update.
QueryWindow(info) ==
  IF info.dt < 0
  THEN [from |-> 0, to |-> info.simTime, seekRewind |-> TRUE]
  ELSE [from |-> info.simTime - info.dt, to |-> info.simTime,
        seekRewind |-> FALSE]

\* InitialEntitiesToRemove that lists the entities of the world whatever
\* the direction of the step.
InitialEntitiesToRemoveAlways(ecm, info) == ecm.ents

\* entitiesToRemove before the batch is played: every entity of the world
\* when jumping back in time.
InitialEntitiesToRemove(ecm, info) ==
  IF info.dt < 0 THEN ecm.ents ELSE {}

\* MarkRemovals that never takes an entity out of entitiesToRemove.
RECURSIVE MarkRemovalsNeverErases(_, _)
MarkRemovalsNeverErases(rem, ems) ==
  IF ems = << >> THEN rem
  ELSE MarkRemovalsNeverErases(IF Head(ems).remove
                               THEN rem \cup {Head(ems).id} ELSE rem,
                               Tail(ems))

\* The update of entitiesToRemove by the entity messages of one message.
RECURSIVE MarkRemovals(_, _)
MarkRemovals(rem, ems) ==
  IF ems = << >> THEN rem
  ELSE MarkRemovals(IF Head(ems).remove THEN rem \cup {Head(ems).id}
                    ELSE rem \ {Head(ems).id},
                    Tail(ems))

\* PlayMessage that also flags, message by message, every emitter whose
\* command the message changed.
PlayMessageFlags(acc, m, seekRewind, logPath, exists) ==
  LET rewritten(a1, r) ==
        [a1 EXCEPT !.ecm = r.ecm, !.flag = r.flag, !.calls = @ \o r.calls]
      rewrite(a1) ==
        rewritten(a1, ReplaceResourceURIs(a1.ecm, logPath, a1.flag, exists))
      flagEach(a1) ==
        rewrite([a1 EXCEPT !.ecm.changed =
                   @ \cup {e \in EachWith(a1.ecm, "ParticleEmitterCmd") :
                             /\ HasComp(acc.ecm, e, "ParticleEmitterCmd")
                             /\ acc.ecm.comp[e]["ParticleEmitterCmd"]
                                  # a1.ecm.comp[e]["ParticleEmitterCmd"]}])
  IN  flagEach(IF IsStateType(m.type)
               THEN [acc EXCEPT
                       !.rem = IF seekRewind THEN MarkRemovals(@, m.entities)
                               ELSE @,
                       !.ecm = SetState(@, m.entities)]
               ELSE acc)

\* One iteration of the batch loop of Update on message m.
PlayMessage(acc, m, seekRewind, logPath, exists) ==
  LET rewritten(a1, r) ==
        [a1 EXCEPT !.ecm = r.ecm, !.flag = r.flag, !.calls = @ \o r.calls]
      rewrite(a1) ==
        rewritten(a1, ReplaceResourceURIs(a1.ecm, logPath, a1.flag, exists))
  IN  rewrite(IF m.type = StateType
              THEN [acc EXCEPT
                      !.rem = IF seekRewind THEN MarkRemovals(@, m.entities)
                              ELSE @,
                      !.ecm = SetState(@, m.entities)]
              ELSE IF m.type = StateMapType
              THEN [acc EXCEPT
                      !.rem = IF seekRewind THEN MarkRemovals(@, m.entities)
                              ELSE @,
                      !.ecm = SetState(@, m.entities)]
              ELSE acc)

\* PlayBatch that gives up at the first message that is no state.
RECURSIVE PlayBatchStopsAtOther(_, _, _, _, _, _)
PlayBatchStopsAtOther(acc, msgs, batch, seekRewind, logPath, exists) ==
  IF batch = << >> THEN acc
  ELSE IF ~IsStateType(msgs[Head(batch)].type) THEN acc
  ELSE PlayBatchStopsAtOther(
         PlayMessage(acc, msgs[Head(batch)], seekRewind, logPath, exists),
         msgs, Tail(batch), seekRewind, logPath, exists)

\* The batch loop of Update.
RECURSIVE PlayBatch(_, _, _, _, _, _)
PlayBatch(acc, msgs, batch, seekRewind, logPath, exists) ==
  IF batch = << >> THEN acc
  ELSE PlayBatch(PlayMessage(acc, msgs[Head(batch)], seekRewind, logPath,
                             exists),
                 msgs, Tail(batch), seekRewind, logPath, exists)

\* DetectChanges that flags a transition without recording the new value.
RECURSIVE DetectChangesKeepsOld(_, _, _)
DetectChangesKeepsOld(ecm, prev, todo) ==
  IF todo = << >> THEN [ecm |-> ecm, prev |-> prev]
  ELSE
    LET e == Head(todo)
        put(v) == [k \in (DOMAIN prev) \cup {e} |->
                     IF k = e THEN v ELSE prev[k]]
    IN  IF ~HasComp(ecm, e, "ParticleEmitterCmd")
        THEN DetectChangesKeepsOld(ecm, prev, Tail(todo))
        ELSE IF e \notin DOMAIN prev
        THEN DetectChangesKeepsOld(ecm,
                                   put(ecm.comp[e]["ParticleEmitterCmd"]),
                                   Tail(todo))
        ELSE IF prev[e] # ecm.comp[e]["ParticleEmitterCmd"]
        THEN DetectChangesKeepsOld([ecm EXCEPT !.changed = @ \cup {e}],
                                   prev, Tail(todo))
        ELSE DetectChangesKeepsOld(ecm, prev, Tail(todo))

\* The particle emitter pass of Update over the entities of todo.
RECURSIVE DetectChanges(_, _, _)
DetectChanges(ecm, prev, todo) ==
  IF todo = << >> THEN [ecm |-> ecm, prev |-> prev]
  ELSE
    LET e == Head(todo)
        put(v) == [k \in (DOMAIN prev) \cup {e} |->
                     IF k = e THEN v ELSE prev[k]]
    IN  IF ~HasComp(ecm, e, "ParticleEmitterCmd")
        THEN DetectChanges(ecm, prev, Tail(todo))
        ELSE IF e \notin DOMAIN prev
        THEN DetectChanges(ecm, put(ecm.comp[e]["ParticleEmitterCmd"]),
                           Tail(todo))
        ELSE IF prev[e] # ecm.comp[e]["ParticleEmitterCmd"]
        THEN DetectChanges([ecm EXCEPT !.changed = @ \cup {e}],
                           put(ecm.comp[e]["ParticleEmitterCmd"]),
                           Tail(todo))
        ELSE DetectChanges(ecm, prev, Tail(todo))

\* EndOfLog that fires only once simulation time is past the end.
EndOfLogPassed(info, log) == info.simTime > EndTime(log)

\* The end-of-log test of Update: simulation time has reached the end time
\* of the log.
EndOfLog(info, log) == info.simTime >= EndTime(log)

\* ReturnsEarly without the test that the instance was started.
ReturnsEarlyIgnoresStarted(d, info) == info.dt = 0

\* ReturnsEarly without the test of the time step.
ReturnsEarlyIgnoresDt(d, info) == ~d.instStarted

\* The early returns of Update: a zero time step, or an instance that was
\* not started.
ReturnsEarly(d, info) == info.dt = 0 \/ ~d.instStarted

\* What a call of Update that returns early reports.
NoUpdate(d, ecm) ==
  [d |-> d, ecm |-> ecm, ran |-> FALSE, queried |-> FALSE,
   from |-> 0, to |-> 0, seekRewind |-> FALSE, initRemove |-> {},
   applied |-> << >>, removed |-> {}, flagged |-> {}, rewrites |-> << >>,
   pause |-> FALSE]

\* LogPlayback::Update.  Besides the new private data and world the result
\* reports the window queried, the messages of the batch, entitiesToRemove
\* before and after the batch, the entities flagged as changed and whether
\* Pause(true) was emitted.
UpdateOp(d, ecm, info, exists, msgs) ==
  IF ReturnsEarly(d, info) THEN NoUpdate(d, ecm)
  ELSE
    LET w == QueryWindow(info)
        rem0 == InitialEntitiesToRemove(ecm, info)
        log == LogOf(d, msgs)
        removals(batch, played, det) ==
          [d |-> [d EXCEPT !.doReplaceResourceURIs = played.flag,
                           !.prevParticleEmitterCmds = det.prev],
           ecm |-> [det.ecm EXCEPT !.toRemove = @ \cup played.rem],
           ran |-> TRUE, queried |-> TRUE,
           from |-> w.from, to |-> w.to, seekRewind |-> w.seekRewind,
           initRemove |-> rem0, applied |-> batch, removed |-> played.rem,
           flagged |-> det.ecm.changed \ played.ecm.changed,
           rewrites |-> played.calls,
           pause |-> EndOfLog(info, log)]
        emitters(batch, played) ==
          removals(batch, played,
                   DetectChanges(played.ecm, d.prevParticleEmitterCmds,
                                 EntOrder))
        play(batch) ==
          emitters(batch,
                   PlayBatch([ecm |-> ecm, flag |-> d.doReplaceResourceURIs,
                              rem |-> rem0, calls |-> << >>],
                             log, batch, w.seekRewind, d.logPath, exists))
    IN  play(QueryMessages(log, w.from, w.to))

(***************************************************************************)
(* The state machine.                                                      *)
(***************************************************************************)
VARIABLES
  started,    \* LogPlaybackPrivate::started, shared by every instance
  inst,       \* the private data of every LogPlayback instance
  ecm,        \* the entity-component world
  info,       \* the UpdateInfo of the current host iteration
  pending,    \* instances whose Update of this iteration is still to run
  exists,     \* the paths present on the file system
  msgs,       \* the messages of the recorded state log
  sdf,        \* playback_path of the SDF element each instance is given
  world0,     \* the world as the host loaded it, before any plugin ran
  run,        \* history of the session: the time the current run of
              \* forward steps began at and the messages its steps have
              \* played, in order; the emitter commands seen at the last
              \* Step and the entities that ever held one; whether the
              \* last Step was at or past the end of the log and whether
              \* it was a rewind that requested removals
  obs         \* what the last call did (its return value, its outputs)

vars == <<started, inst, ecm, info, pending, exists, msgs, sdf, world0, run, obs>>

\* entity messages
Ent(id, comps) == [id |-> id, remove |-> FALSE, comps |-> comps]
Rem(id) == [id |-> id, remove |-> TRUE, comps |-> NoComps]
Mesh(uri) == [type |-> "MESH", uri |-> uri]
Cmd(b) == [c \in {"ParticleEmitterCmd"} |-> b]
Geo(uri) == [c \in {"Geometry"} |-> Mesh(uri)]
Mat(uri) == [c \in {"Material"} |-> [uri |-> uri]]
IsWorld == [c \in {"World"} |-> TRUE]

\* a log message without its time stamp
Payload(type, ems) == [type |-> type, entities |-> ems]

\* the logs whose messages carry payloads of pool, in any order, with
\* increasing time stamps
Stamp(pl, t) == [time |-> t, type |-> pl.type, entities |-> pl.entities]

LogsOver(pool) ==
  UNION {
    {[i \in 1..n |-> Stamp(pls[i], ts[i])] :
       pls \in [1..n -> pool],
       ts \in {f \in [1..n -> Times] :
                 \A i \in 1..n : i > 1 => f[i - 1] < f[i]}}
    : n \in 0..MaxLogLen}

\* the world the host has loaded before the plugins are configured: the
\* world entity of the SDF world, or nothing
LoadedWorld ==
  [EmptyEcm EXCEPT !.ents = {"W"}, !.comp["W"] = IsWorld]

\* the file system before any archive is unpacked
DiskWith(resources) ==
  {DbPath(<<"/log">>), DbPath(<<"/bad">>), <<"/old">>} \cup Files
    \cup resources

\* playback_path of an instance the world file does not load
NoPlugin == <<"<none>">>

\* the SDF of a world file that loads one instance, with the given path
OnePlugin(path) == [i \in Instances |-> IF i = 1 THEN path ELSE NoPlugin]

\* the history of a session no Step of which has run yet
NoRun(t) ==
  [from |-> t, applied |-> << >>, cmds |-> NoComps, seen |-> {},
   atEnd |-> FALSE, marked |-> FALSE]

\* the emitter commands a Step leaves in the world w
CmdsSeen(w) ==
  [e \in EachWith(w, "ParticleEmitterCmd") |->
     w.comp[e]["ParticleEmitterCmd"]]

InitWith(logs, sdfs, worlds, disks) ==
  /\ started = FALSE
  /\ sdf \in sdfs
  /\ inst = [i \in Instances |->
              IF sdf[i] = NoPlugin
              THEN [NewInstance EXCEPT !.life = "destroyed"]
              ELSE NewInstance]
  /\ ecm \in worlds
  /\ world0 = ecm
  /\ info = [simTime |-> 0, dt |-> 0]
  /\ pending = {}
  /\ exists \in disks
  /\ msgs \in logs
  /\ run = NoRun(0)
  /\ obs = [op |-> "none"]

\* The host loads a plugin: LogPlayback::Configure on instance i.
Configure(i) ==
  /\ pending = {}
  /\ inst[i].life = "constructed"
  /\ LET done(r) ==
           /\ inst' = [inst EXCEPT ![i] = r.d]
           /\ ecm' = r.ecm
           /\ started' = r.started
           /\ exists' = r.exists
           /\ obs' = [op |-> "Configure", inst |-> i, start |-> r.start,
                      ret |-> r.ret, seed |-> r.seed, opened |-> r.opened,
                      rewrites |-> r.rewrites,
                      before |-> ecm, instBefore |-> inst,
                      startedBefore |-> started, existsBefore |-> exists]
           /\ run' = IF r.start /\ r.ret THEN NoRun(info.simTime) ELSE run
     IN  done(ConfigureOp(inst[i], ecm, started, exists, msgs, sdf[i]))
  /\ UNCHANGED <<info, pending, msgs, sdf, world0>>

\* The host unloads a plugin: LogPlayback::~LogPlayback on instance i.
Destroy(i) ==
  /\ pending = {}
  /\ inst[i].life # "destroyed"
  /\ LET r == DestroyOp(inst[i], started, exists)
     IN  /\ inst' = [inst EXCEPT ![i] = r.d]
         /\ started' = r.started
         /\ exists' = r.exists
         /\ obs' = [op |-> "Destroy", inst |-> i,
                    instBefore |-> inst, startedBefore |-> started]
  /\ UNCHANGED <<ecm, info, pending, msgs, sdf, world0, run>>

\* The host begins an iteration at simulation time t: every configured
\* instance is due an Update with the same UpdateInfo.
HostStep(t) ==
  /\ pending = {}
  /\ ecm.toRemove = {} /\ ecm.changed = {}
  /\ info' = [simTime |-> t, dt |-> t - info.simTime]
  /\ pending' = {i \in Instances : inst[i].life = "configured"}
  /\ obs' = [op |-> "HostStep"]
  /\ UNCHANGED <<started, inst, ecm, exists, msgs, sdf, world0, run>>

\* LogPlayback::Update on the next instance of the iteration.
Update(i) ==
  /\ i \in pending
  /\ \A j \in pending : i <= j
  /\ LET done(r) ==
           /\ inst' = [inst EXCEPT ![i] = r.d]
           /\ ecm' = r.ecm
           /\ obs' = [op |-> "Update", inst |-> i, before |-> ecm,
                      instBefore |-> inst,
                      ran |-> r.ran, queried |-> r.queried,
                      from |-> r.from, to |-> r.to,
                      seekRewind |-> r.seekRewind,
                      initRemove |-> r.initRemove, applied |-> r.applied,
                      removed |-> r.removed, flagged |-> r.flagged,
                      rewrites |-> r.rewrites, runBefore |-> run,
                      pause |-> r.pause]
           /\ run' = IF ~r.ran THEN run
                     ELSE [from |-> IF r.seekRewind THEN info.simTime
                                    ELSE run.from,
                           applied |-> IF r.seekRewind THEN << >>
                                       ELSE run.applied \o r.applied,
                           cmds |-> CmdsSeen(r.ecm),
                           seen |-> run.seen
                                      \cup EachWith(r.ecm,
                                                    "ParticleEmitterCmd"),
                           atEnd |-> info.simTime
                                       >= EndTime(LogOf(inst[i], msgs)),
                           marked |-> r.seekRewind /\ r.removed # {}]
     IN  done(UpdateOp(inst[i], ecm, info, exists, msgs))
  /\ pending' = pending \ {i}
  /\ UNCHANGED <<started, info, exists, msgs, sdf, world0>>

\* The host ends an iteration: the requested removals are carried out.
ProcessRemoveEntityRequests ==
  /\ pending = {}
  /\ ecm.toRemove # {} \/ ecm.changed # {}
  /\ ecm' = ProcessRemovals(ecm)
  /\ obs' = [op |-> "ProcessRemoveEntityRequests"]
  /\ UNCHANGED <<started, inst, info, pending, exists, msgs, sdf, world0,
                 run>>

Next ==
  \/ \E i \in Instances : Configure(i)
  \/ \E i \in Instances : Destroy(i)
  \/ \E t \in Times : HostStep(t)
  \/ \E i \in Instances : Update(i)
  \/ ProcessRemoveEntityRequests

(***************************************************************************)
(* Specifications.  Each plays the same program on its own family of       *)
(* recorded logs, world files and file systems.                            *)
(***************************************************************************)
\* a full state (the world entity and an emitter A), a record that creates
\* an emitter B, a record that removes A
FullState ==
  Payload(StateType, <<Ent("W", IsWorld), Ent("A", Cmd(TRUE))>>)
CreateB == Payload(StateMapType, <<Ent("B", Cmd(FALSE))>>)
RemoveA == Payload(StateType, <<Rem("A")>>)
SdfString == Payload(StringType, << >>)

PlainDisk == DiskWith({<<"/log", "/mesh">>})

\* Spec: one instance plays, forward and backward, the logs made of full
\* states, creations and removals.
PlayPool == {FullState, CreateB, RemoveA}

Init ==
  InitWith(LogsOver(PlayPool), {OnePlugin(<<"/log">>)}, {LoadedWorld},
           {PlainDisk})

Spec == Init /\ [][Next]_vars

\* SpecStart: one instance on logs in which strings and states mix.
StartPool == {SdfString, FullState, CreateB}

InitStart ==
  InitWith(LogsOver(StartPool), {OnePlugin(<<"/log">>)}, {LoadedWorld},
           {PlainDisk})

SpecStart == InitStart /\ [][Next]_vars

\* SpecRewind: one instance on the logs of two seek scenarios.  RewindLog:
\* the seed state holds the single entity A, B is created at t = 1, A is
\* removed at t = 2.  SeekLog: a full state, then at t = 2 a record that
\* switches the emitter A off and gives it a mesh.
RewindLog ==
  <<Stamp(Payload(StateType, <<Ent("A", IsWorld)>>), 0),
    Stamp(CreateB, 1),
    Stamp(RemoveA, 2)>>

SeekLog ==
  <<Stamp(FullState, 0),
    Stamp(Payload(StateMapType,
                  <<Ent("A", Cmd(FALSE) @@ Geo(<<"/mesh">>))>>), 2)>>

InitRewind ==
  InitWith({RewindLog, SeekLog}, {OnePlugin(<<"/log">>)}, {EmptyEcm},
           {PlainDisk})

SpecRewind == InitRewind /\ [][Next]_vars

\* SpecSession: every instance is configured; the first with a good log
\* directory, a directory without state log or no path at all, the others
\* with the good directory; on a world with or without world entity, for
\* an empty log, a log without state and a log with one.
SessionPaths == {<< >>, <<"/log">>, <<"/old">>}

SessionSdfs ==
  {f \in [Instances -> SessionPaths] :
     \A i \in Instances : i > 1 => f[i] = <<"/log">>}

SessionLogs ==
  {<< >>,
   <<Stamp(SdfString, 0)>>,
   <<Stamp(SdfString, 0), Stamp(FullState, 1)>>}

InitSession ==
  InitWith(SessionLogs, SessionSdfs,
           {EmptyEcm, LoadedWorld}, {PlainDisk})

SpecSession == InitSession /\ [][Next]_vars

\* SpecArchive: the first instance is given a regular file: an archive
\* that unpacks, in lower or upper case, an archive that does not, a file
\* that is no archive; the other instances the good directory.
ArchiveSdfs ==
  {f \in [Instances -> Files \cup {<<"/log">>}] :
     /\ f[1] \in Files
     /\ \A i \in Instances : i > 1 => f[i] = <<"/log">>}

InitArchive ==
  InitWith(SessionLogs, ArchiveSdfs, {LoadedWorld}, {PlainDisk})

SpecArchive == InitArchive /\ [][Next]_vars

\* SpecFaults: one instance on a good log directory or on one whose state
\* log cannot be opened, on a world with or without world entity, for an
\* empty log, a log whose seed state holds no world entity and a log whose
\* seed state holds one.
FaultPaths == {<<"/log">>, <<"/bad">>}

FaultLogs ==
  {<< >>,
   <<Stamp(CreateB, 0), Stamp(FullState, 1)>>,
   <<Stamp(SdfString, 0), Stamp(FullState, 1), Stamp(RemoveA, 2)>>}

InitFaults ==
  InitWith(FaultLogs, {OnePlugin(p) : p \in FaultPaths},
           {EmptyEcm, LoadedWorld}, {PlainDisk})

SpecFaults == InitFaults /\ [][Next]_vars

\* SpecReplay: one instance on logs that begin with a full state at t = 0
\* and go on with strings, messages of an unsupported type, records that
\* switch the emitter A off and records that remove A.
UnknownMsg == Payload(OtherType, << >>)
CmdOff == Payload(StateMapType, <<Ent("A", Cmd(FALSE))>>)

ReplayPool == {SdfString, UnknownMsg, CmdOff, RemoveA}

ReplayLogs ==
  UNION {
    {[i \in 1..(n + 1) |->
        IF i = 1 THEN Stamp(FullState, 0) ELSE Stamp(pls[i - 1], ts[i - 1])] :
       pls \in [1..n -> ReplayPool],
       ts \in {f \in [1..n -> Times \ {0}] :
                 \A i \in 1..n : i > 1 => f[i - 1] < f[i]}}
    : n \in 0..(MaxLogLen - 1)}

InitReplay ==
  InitWith(ReplayLogs, {OnePlugin(<<"/log">>)}, {LoadedWorld}, {PlainDisk})

SpecReplay == InitReplay /\ [][Next]_vars

\* SpecUri: one instance on logs whose records carry resource URIs: plain
\* absolute paths and file:// URIs, with and without the log directory in
\* front, a relative path, and a path the log directory does not hold;
\* on a disk whose log directory holds the recorded mesh under /mesh and,
\* for a mesh recorded from /log/mesh, under /log/mesh.
MeshAndScript ==
  Payload(StateType,
          <<Ent("A", Geo(<<"/mesh">>)),
            Ent("B", Mat(<<"file://", "/mesh">>))>>)
RootedUris ==
  Payload(StateMapType,
          <<Ent("A", Geo(<<"/log", "/mesh">>) @@ Mat(<<"tex">>)),
            Ent("B", Geo(<<"file://", "/log", "/mesh">>))>>)
MissingScript ==
  Payload(StateType,
          <<Ent("A", Mat(<<"/tex">>)),
            Ent("B", Mat(<<"file://", "/mesh">>))>>)

UriPool == {MeshAndScript, RootedUris, MissingScript}

NestedDisk == DiskWith({<<"/log", "/mesh">>, <<"/log", "/log", "/mesh">>})

InitUri ==
  InitWith(LogsOver(UriPool), {OnePlugin(<<"/log">>)}, {LoadedWorld},
           {NestedDisk})

SpecUri == InitUri /\ [][Next]_vars

(***************************************************************************)
(* The recorded state: what the log says the world holds at time t.        *)
(***************************************************************************)
\* one entity message on the recorded world: a removal deletes the entity
\* with its components, anything else creates or overwrites
RecordEntityMsg(w, em) ==
  IF em.remove
  THEN [w EXCEPT !.ents = @ \ {em.id}, !.comp[em.id] = NoComps]
  ELSE ApplyEntityMsg(w, em)

RECURSIVE RecordMsg(_, _)
RecordMsg(w, ems) ==
  IF ems = << >> THEN w
  ELSE RecordMsg(RecordEntityMsg(w, Head(ems)), Tail(ems))

\* the records of log[from..] stamped before t, applied in log order
RECURSIVE RecordedFrom(_, _, _, _)
RecordedFrom(w, log, i, t) ==
  IF i > Len(log) THEN w
  ELSE RecordedFrom(IF IsStateType(log[i].type) /\ log[i].time < t
                    THEN RecordMsg(w, log[i].entities) ELSE w,
                    log, i + 1, t)

\* the seed state on the loaded world, then the records stamped before t;
\* the world entity carries the log statistics and resource URIs are read
\* relative to the log directory, as Start leaves them
RecordedWorld(log, t, logPath) ==
  LET seed == FirstState(log, QueryAll(log))
      w0 == IF seed = 0 THEN world0 ELSE RecordMsg(world0, log[seed].entities)
      w1 == RecordedFrom(w0, log, 1, t)
      we == WorldEntityOf(w1)
      w2 == IF we = kNullEntity THEN w1
            ELSE SetComp(w1, we, "LogPlaybackStatistics",
                         <<StartTime(log), EndTime(log)>>)
  IN  ReplaceResourceURIs(w2, logPath, TRUE, exists).ecm

\* what an observer of the world sees: the live entities (those not due
\* for removal) and their components
LiveView(w) ==
  [ents |-> w.ents \ w.toRemove,
   comp |-> [e \in Ents |-> IF e \in w.ents \ w.toRemove THEN w.comp[e]
                            ELSE NoComps]]

\* the call just made was an Update of the active session that did not
\* return early
StepRan == obs.op = "Update" /\ obs.ran

\* the recorded state at the simulation time of the last Step
RecordedNow ==
  LiveView(RecordedWorld(msgs, info.simTime, inst[obs.inst].logPath))

\* C1, in full: after any sequence of Steps of the active session that ends
\* at simulation time t, the live entities and every component value equal
\* the recorded state at t: the seed state, then exactly the records
\* stamped before t, once and in log order.
C1_ReplayMatchesRecord == StepRan => LiveView(ecm) = RecordedNow

\* C1, its closing clause: after a backward jump to t nothing written by a
\* record later than t is visible: every component a live entity holds is
\* a component of the recorded state at t, with the recorded value.
C1_NothingLaterVisible ==
  (StepRan /\ info.dt < 0) =>
    \A e \in LiveView(ecm).ents :
      \A c \in DOMAIN ecm.comp[e] :
        /\ c \in DOMAIN RecordedNow.comp[e]
        /\ ecm.comp[e][c] = RecordedNow.comp[e][c]

\* C2: in the rewind scenario (seed state {A}, B created at t = 1, A
\* removed at t = 2), a backward Step to t = 0 issued once the world has
\* been played past t = 2 leaves the entity set {A}: A is live again and B
\* is requested for removal.
C2_RewindToStart ==
  (StepRan /\ msgs = RewindLog /\ info.dt < 0 /\ info.simTime = 0
     /\ info.simTime - info.dt > 2 /\ obs.before.ents = {"B"}) =>
    /\ LiveView(ecm).ents = {"A"}
    /\ "B" \in ecm.toRemove

(***************************************************************************)
(* Steps.                                                                  *)
(***************************************************************************)
\* the simulation time of the previous host iteration
tPrev == info.simTime - info.dt

\* the log the instance of the last call reads
ObsLog == LogOf(inst[obs.inst], msgs)

\* message i is part of the batch the last Update played
Played(i) == \E k \in DOMAIN obs.applied : obs.applied[k] = i

\* how often message i occurs in the sequence s of played messages
TimesPlayed(s, i) == Cardinality({k \in DOMAIN s : s[k] = i})

RewindStep == StepRan /\ info.dt < 0
ForwardStep == StepRan /\ info.dt > 0
ZeroStep == obs.op = "Update" /\ info.dt = 0

\* C3: a Step with dt < 0 rewinds: the log is queried with [0, tNow)
\* whatever tPrev was, and entitiesToRemove starts, before any record is
\* applied, as exactly the entities of the world at the start of the Step.
C3_RewindWindow ==
  RewindStep =>
    /\ obs.seekRewind
    /\ obs.from = 0 /\ obs.to = info.simTime
    /\ \A i \in DOMAIN ObsLog : Played(i) <=> ObsLog[i].time < info.simTime
    /\ obs.initRemove = obs.before.ents

\* a rewind from a late time into the middle of the log, on a world of
\* several entities, whose records then change entitiesToRemove
C3_Witness ==
  /\ RewindStep
  /\ tPrev >= 2 /\ info.simTime >= 1
  /\ obs.applied # << >>
  /\ Cardinality(obs.initRemove) >= 2
  /\ obs.removed # obs.initRemove

\* C4: a Step with dt > 0 does not rewind and plays exactly the records
\* with tPrev <= time stamp < tNow; over a run of contiguous forward Steps
\* every record of the span is played in exactly one Step.
C4_ForwardWindow ==
  ForwardStep =>
    /\ ~obs.seekRewind
    /\ obs.initRemove = {}
    /\ \A i \in DOMAIN ObsLog :
         Played(i) <=> (tPrev <= ObsLog[i].time /\ ObsLog[i].time < info.simTime)
    /\ \A i \in DOMAIN ObsLog :
         TimesPlayed(run.applied, i) =
           IF run.from <= ObsLog[i].time /\ ObsLog[i].time < info.simTime
           THEN 1 ELSE 0

\* the second or a later Step of a forward run: it plays a record, leaves
\* alone a record stamped exactly tNow, and earlier Steps played others
C4_Witness ==
  /\ ForwardStep
  /\ run.from < tPrev
  /\ obs.applied # << >>
  /\ Len(run.applied) > Len(obs.applied)
  /\ \E i \in DOMAIN ObsLog : ObsLog[i].time = info.simTime

\* C5: a Step with dt = 0 does nothing: no query, the world, the cache of
\* previous values and the URI flag stay as they are, no removal is
\* requested and no pause is emitted, also at or past the end of the log.
C5_ZeroStepNoOp ==
  ZeroStep =>
    /\ ~obs.queried
    /\ obs.applied = << >>
    /\ ecm = obs.before
    /\ inst = obs.instBefore
    /\ obs.removed = {}
    /\ ~obs.pause

\* a zero Step of the started session at the end of a log that was played,
\* with a value in the cache
C5_Witness ==
  /\ ZeroStep
  /\ inst[obs.inst].instStarted
  /\ ObsLog # << >>
  /\ info.simTime >= EndTime(ObsLog)
  /\ DOMAIN inst[obs.inst].prevParticleEmitterCmds # {}

(***************************************************************************)
(* Change detection and the end of the log.                                *)
(***************************************************************************)
\* the emitter command entity e holds after the last Step
CmdNow(e) == ecm.comp[e]["ParticleEmitterCmd"]

\* C11: over consecutive Steps with dt # 0 in which an entity holds the
\* emitter command, the entity is flagged as changed at a Step exactly
\* when its value differs from the value at the Step before; the first
\* observation of the session is never flagged, and an entity that holds
\* no command is not flagged.
C11_EdgeTriggered ==
  StepRan =>
    /\ obs.flagged \subseteq EachWith(ecm, "ParticleEmitterCmd")
    /\ obs.flagged \subseteq ecm.changed
    /\ \A e \in EachWith(ecm, "ParticleEmitterCmd") :
         IF e \in DOMAIN obs.runBefore.cmds
         THEN e \in obs.flagged <=> CmdNow(e) # obs.runBefore.cmds[e]
         ELSE e \notin obs.runBefore.seen => e \notin obs.flagged

\* a Step that flags A, seen with the value false at the Step before, for
\* going back to true
C11_Witness ==
  /\ StepRan
  /\ "A" \in obs.flagged
  /\ "A" \in DOMAIN obs.runBefore.cmds
  /\ ~obs.runBefore.cmds["A"] /\ CmdNow("A")

\* C22: a stale entry of prevParticleEmitterCmds is never reused: when an
\* entity that held the emitter command was removed from the world and an
\* entity with the same identifier holds the command again, the first Step
\* that observes it, the Step that re-creates it, does not flag it, whatever
\* the cache held.
C22_StaleEntryNotReused ==
  StepRan =>
    \A e \in EachWith(ecm, "ParticleEmitterCmd") :
      (e \in obs.runBefore.seen /\ e \notin obs.before.ents) =>
        e \notin obs.flagged

\* the cache of emitter commands the instance held before the last call
PrevBefore == obs.instBefore[obs.inst].prevParticleEmitterCmds

\* message m gives entity e the emitter command v
SetsCmd(m, e, v) ==
  \E n \in DOMAIN m.entities :
    /\ m.entities[n].id = e /\ ~m.entities[n].remove
    /\ "ParticleEmitterCmd" \in DOMAIN m.entities[n].comps
    /\ m.entities[n].comps["ParticleEmitterCmd"] = v

\* C23: change detection runs once per Step with dt # 0, on the world the
\* whole batch has left: an entity is flagged exactly when the command it
\* holds at the end of the batch differs from its cached value, the cache
\* takes the end-of-batch value of every entity that holds the command,
\* and no other change mark is set; a value that changes and changes back
\* within the batch raises no notification.
C23_DetectOncePerStep ==
  StepRan =>
    /\ \A e \in Ents :
         e \in obs.flagged <=>
           /\ HasComp(ecm, e, "ParticleEmitterCmd")
           /\ e \in DOMAIN PrevBefore
           /\ PrevBefore[e] # CmdNow(e)
    /\ inst[obs.inst].prevParticleEmitterCmds =
         [e \in (DOMAIN PrevBefore) \cup EachWith(ecm, "ParticleEmitterCmd") |->
            IF HasComp(ecm, e, "ParticleEmitterCmd") THEN CmdNow(e)
            ELSE PrevBefore[e]]
    /\ ecm.changed = obs.before.changed \cup obs.flagged

\* a rewind whose batch gives the emitter A a value other than the cached
\* one and then the cached value again: A is not flagged
C23_Witness ==
  /\ RewindStep
  /\ "A" \in DOMAIN PrevBefore
  /\ HasComp(ecm, "A", "ParticleEmitterCmd")
  /\ CmdNow("A") = PrevBefore["A"]
  /\ \E k \in DOMAIN obs.applied :
       SetsCmd(ObsLog[obs.applied[k]], "A", ~PrevBefore["A"])
  /\ "A" \notin obs.flagged

\* C12: every Step of the active session with dt # 0 emits Pause(true)
\* when tNow >= EndTime(), forward or backward alike, and emits no pause
\* when tNow < EndTime().
C12_PauseAtEnd ==
  StepRan => (obs.pause <=> info.simTime >= EndTime(ObsLog))

\* a rewind that lands at or past the end of a log with several records,
\* right after a Step that was at or past the end too
C12_Witness ==
  /\ RewindStep
  /\ obs.pause
  /\ Len(ObsLog) >= 2
  /\ obs.runBefore.atEnd

\* C13: the pause is emitted once per crossing of the end time: a Step at
\* or past EndTime() emits it only if the Step before was below EndTime()
\* (or is the first of the session); further Steps at or past the end
\* emit none.
C13_PauseOncePerCrossing ==
  StepRan =>
    (obs.pause <=> (info.simTime >= EndTime(ObsLog) /\ ~obs.runBefore.atEnd))

(***************************************************************************)
(* Resource URIs.                                                          *)
(***************************************************************************)
\* the last call ran the rewriter for the session: a Start that succeeded
\* or a Step that was not cut short
RewriterRan == StepRan \/ (obs.op = "Configure" /\ obs.start /\ obs.ret)

\* the log directory of the instance of the last call
ObsRoot == inst[obs.inst].logPath

\* the calls of PrependLogPath the last call made while rewriting was on
EnabledCalls == {k \in DOMAIN obs.rewrites : obs.rewrites[k].flagIn}

\* the URI is a plain absolute path / carries the file:// scheme
IsPlainAbs(u) == StartsWithSlash(u)
HasScheme(u) == StartsWith(u, filePrefix)

\* the URI without its scheme
Stripped(u) == IF HasScheme(u) THEN SubstrFrom(u, Len(filePrefix)) ELSE u

\* the URI begins with the log directory, with or without scheme
BeginsWithRoot(u) == StartsWith(Stripped(u), ObsRoot)

\* join(logRootPath, strippedUri)
Candidate(u) == joinPaths(ObsRoot, Stripped(u))

\* C14: the rewriter is idempotent: run once more on the component state
\* it left, it leaves every URI as it is, and PrependLogPath called again
\* on a URI it returned returns that URI: the log directory is not put in
\* front a second time.
C14_RewriteIdempotent ==
  RewriterRan =>
    /\ ReplaceResourceURIs(ecm, ObsRoot,
                           inst[obs.inst].doReplaceResourceURIs,
                           exists).ecm = ecm
    /\ \A k \in DOMAIN obs.rewrites :
         PrependLogPath(ObsRoot, obs.rewrites[k].flagOut, exists,
                        obs.rewrites[k].ret).uri = obs.rewrites[k].ret

\* a Step whose batch makes the rewriter scan twice: a URI it rewrote in
\* the first scan comes back in a later scan, rewriting still on, and is
\* returned as it is
C14_Witness ==
  /\ StepRan
  /\ \E j, k \in EnabledCalls :
       /\ j < k
       /\ obs.rewrites[j].ret # obs.rewrites[j].uri
       /\ obs.rewrites[k].uri = obs.rewrites[j].ret
       /\ obs.rewrites[k].ret = obs.rewrites[k].uri

\* C15: a URI that already begins with the log directory, written with
\* the file:// scheme or as a plain absolute path, is returned unchanged
\* and does not switch the rewriting off.
C15_RootedLeftAlone ==
  RewriterRan =>
    \A k \in EnabledCalls :
      BeginsWithRoot(obs.rewrites[k].uri) =>
        /\ obs.rewrites[k].ret = obs.rewrites[k].uri
        /\ obs.rewrites[k].flagOut

\* C16 as claimed: when the candidate exists the URI returned is the
\* candidate, with the file:// scheme exactly when the URI passed carried
\* it; a URI that is neither absolute nor a file:// URI is returned
\* unchanged.  (URIs that begin with the log directory are the matter of
\* C15.)
C16_SchemeKept ==
  RewriterRan =>
    \A k \in EnabledCalls :
      LET u == obs.rewrites[k].uri
      IN  IF BeginsWithRoot(u) THEN TRUE
          ELSE IF IsPlainAbs(u)
          THEN Candidate(u) \in exists => obs.rewrites[k].ret = Candidate(u)
          ELSE IF HasScheme(u)
          THEN Candidate(u) \in exists =>
                 obs.rewrites[k].ret = filePrefix \o Candidate(u)
          ELSE obs.rewrites[k].ret = u

\* C16 as amended: when the candidate exists, a plain absolute path and a
\* file:// URI whose path does not begin with the log directory are both
\* returned as file:// followed by the candidate, and the rewriting stays
\* on; a URI that is neither absolute nor a file:// URI is returned
\* unchanged.
C16_SchemeAlwaysAdded ==
  RewriterRan =>
    \A k \in EnabledCalls :
      LET u == obs.rewrites[k].uri
      IN  IF IsPlainAbs(u) \/ (HasScheme(u) /\ ~BeginsWithRoot(u))
          THEN Candidate(u) \in exists =>
                 /\ obs.rewrites[k].ret = filePrefix \o Candidate(u)
                 /\ obs.rewrites[k].flagOut
          ELSE HasScheme(u) \/ obs.rewrites[k].ret = u

\* one scan that rewrites a plain absolute path and a file:// URI, both
\* with an existing candidate, and passes over a relative path
C16_Witness ==
  /\ RewriterRan
  /\ \E i, j, k \in EnabledCalls :
       /\ IsPlainAbs(obs.rewrites[i].uri)
       /\ Candidate(obs.rewrites[i].uri) \in exists
       /\ HasScheme(obs.rewrites[j].uri)
       /\ ~BeginsWithRoot(obs.rewrites[j].uri)
       /\ Candidate(obs.rewrites[j].uri) \in exists
       /\ ~IsPlainAbs(obs.rewrites[k].uri) /\ ~HasScheme(obs.rewrites[k].uri)

\* the world after the state messages of batch are applied to w, with no
\* URI rewritten
RECURSIVE AppliedRaw(_, _, _)
AppliedRaw(w, log, batch) ==
  IF batch = << >> THEN w
  ELSE AppliedRaw(IF IsStateType(log[Head(batch)].type)
                  THEN SetState(w, log[Head(batch)].entities) ELSE w,
                  log, Tail(batch))

\* C17: the legacy fallback is sticky.  A call that finds the prepended
\* path missing returns its URI unmodified and switches the rewriting off;
\* every later call of the scan and of the batch returns its URI
\* unmodified; the flag of an instance, once off, stays off; and a Step
\* that begins with the flag off leaves every URI as the log recorded it.
C17_FallbackSticky ==
  /\ RewriterRan =>
       /\ \A k \in DOMAIN obs.rewrites :
            LET c == obs.rewrites[k]
            IN  /\ (c.flagIn /\ (IsPlainAbs(c.uri) \/ HasScheme(c.uri))
                              /\ ~(HasScheme(c.uri) /\ BeginsWithRoot(c.uri))
                              /\ Candidate(c.uri) \notin exists) =>
                      (c.ret = c.uri /\ ~c.flagOut)
                /\ ~c.flagIn => (c.ret = c.uri /\ ~c.flagOut)
                /\ k > 1 => c.flagIn = obs.rewrites[k - 1].flagOut
       /\ obs.rewrites # << >> =>
            inst[obs.inst].doReplaceResourceURIs
              = obs.rewrites[Len(obs.rewrites)].flagOut
  /\ obs.op \in {"Configure", "Update", "Destroy"} =>
       \A i \in Instances :
         ~obs.instBefore[i].doReplaceResourceURIs =>
           ~inst[i].doReplaceResourceURIs
  /\ (StepRan /\ ~obs.instBefore[obs.inst].doReplaceResourceURIs) =>
       /\ obs.rewrites = << >>
       /\ ecm.comp = AppliedRaw(obs.before, ObsLog, obs.applied).comp

\* a Step, after the fallback was taken, that plays a record with a URI
\* whose prepended path exists
C17_Witness ==
  /\ StepRan
  /\ ~obs.instBefore[obs.inst].doReplaceResourceURIs
  /\ \E k \in DOMAIN obs.applied :
       ObsLog[obs.applied[k]].entities = MeshAndScript.entities

(***************************************************************************)
(* The batch of a Step.                                                    *)
(***************************************************************************)
\* the state messages of a log, in log order
RECURSIVE StatesOnly(_)
StatesOnly(log) ==
  IF log = << >> THEN << >>
  ELSE IF IsStateType(Head(log).type)
  THEN <<Head(log)>> \o StatesOnly(Tail(log))
  ELSE StatesOnly(Tail(log))

\* the last Step played, in this order, a message that is no state and
\* then a state message
SkippedThenPlayed ==
  \E j, k \in DOMAIN obs.applied :
    /\ j < k
    /\ ~IsStateType(ObsLog[obs.applied[j]].type)
    /\ IsStateType(ObsLog[obs.applied[k]].type)

\* C18: a message of the window that is neither State nor StateMap does
\* not cut the Step short and changes nothing: the Step leaves the world,
\* the private data, the removal requests and the change flags exactly as
\* a Step over the state messages alone would, and ends with the
\* end-of-log test.
C18_OtherMessagesSkipped ==
  StepRan =>
    LET r == UpdateOp(obs.instBefore[obs.inst], obs.before, info, exists,
                      StatesOnly(msgs))
    IN  /\ ecm = r.ecm
        /\ inst[obs.inst] = r.d
        /\ obs.removed = r.removed
        /\ obs.flagged = r.flagged
        /\ obs.pause <=> info.simTime >= EndTime(ObsLog)

\* a Step whose batch holds a string or an unsupported message and, after
\* it, a record that switches the emitter off, which the Step flags
C18_Witness ==
  /\ StepRan
  /\ SkippedThenPlayed
  /\ "A" \in obs.flagged

\* the entities the records of the last batch mention, and those whose
\* last mention in the batch is a removal
RECURSIVE LastMentions(_, _)
LastMentions(acc, ems) ==
  IF ems = << >> THEN acc
  ELSE LastMentions([acc EXCEPT ![Head(ems).id] =
                       IF Head(ems).remove THEN "removed" ELSE "present"],
                    Tail(ems))

RECURSIVE BatchMentions(_, _, _)
BatchMentions(acc, log, batch) ==
  IF batch = << >> THEN acc
  ELSE BatchMentions(IF IsStateType(log[Head(batch)].type)
                     THEN LastMentions(acc, log[Head(batch)].entities)
                     ELSE acc,
                     log, Tail(batch))

Mentions == BatchMentions([e \in Ents |-> "none"], ObsLog, obs.applied)

C24_ReplayIdempotent ==
  (RewindStep /\ LiveView(obs.before) = RecordedNow) =>
    /\ LiveView(ecm) = LiveView(obs.before)
    /\ obs.removed \subseteq {e \in Ents : Mentions[e] = "removed"}

\* C21: in a Step with dt > 0 entitiesToRemove is empty before the batch
\* and still empty when the removal loop runs, also in the forward Step
\* that follows a rewind which requested removals: the loop requests
\* nothing, and the only removal requests the Step leaves are those the
\* removal records of its own batch made.
C21_ForwardRemovesNothing ==
  ForwardStep =>
    /\ obs.initRemove = {}
    /\ obs.removed = {}
    /\ ecm.toRemove = AppliedRaw(obs.before, ObsLog, obs.applied).toRemove

\* a forward Step on a world of several entities, right after a rewind
\* that requested removals, whose batch holds no removal record
C21_Witness ==
  /\ ForwardStep
  /\ obs.runBefore.marked
  /\ Cardinality(obs.before.ents) >= 2
  /\ obs.applied # << >>
  /\ ecm.toRemove = {}

(***************************************************************************)
(* Start.                                                                  *)
(***************************************************************************)
\* the call just made was a Configure that called Start
StartCalled == obs.op = "Configure" /\ obs.start

\* Start got as far as the scan of the log
StartScanned == StartCalled /\ obs.opened

\* the earliest message of log that is a State or a StateMap, 0 if none
EarliestState(log) ==
  IF \E i \in DOMAIN log : IsStateType(log[i].type)
  THEN CHOOSE i \in DOMAIN log :
         /\ IsStateType(log[i].type)
         /\ \A j \in DOMAIN log : IsStateType(log[j].type) => i <= j
  ELSE 0

\* the entities, the removal requests and the recorded components of a
\* world, without what Start adds of its own (log statistics, the
\* rewriting of resource URIs)
Recorded(w) ==
  [ents |-> w.ents, toRemove |-> w.toRemove,
   comp |-> [e \in Ents |->
               [c \in (DOMAIN w.comp[e]) \ {"LogPlaybackStatistics"} |->
                  IF c \in {"Geometry", "Material"} THEN "uri"
                  ELSE w.comp[e][c]]]]

\* C8: Start applies exactly one message as seed state, the earliest State
\* or StateMap message of the log; no message before it and no message
\* after it is applied.
C8_SeedIsEarliestState ==
  StartScanned =>
    /\ obs.seed = EarliestState(ObsLog)
    /\ Recorded(ecm) =
         Recorded(IF EarliestState(ObsLog) = 0 THEN obs.before
                  ELSE SetState(obs.before,
                                ObsLog[EarliestState(ObsLog)].entities))

\* a Start on a log whose seed state has a message before it and a state
\* message after it
C8_Witness ==
  /\ StartScanned
  /\ obs.seed > 1
  /\ \E i \in DOMAIN ObsLog : i > obs.seed /\ IsStateType(ObsLog[i].type)

(***************************************************************************)
(* Sessions.                                                               *)
(***************************************************************************)
\* instance i is the running session
Active(i) == inst[i].instStarted /\ inst[i].life # "destroyed"

\* instance i was the running session before the last call
ActiveBefore(i) ==
  obs.instBefore[i].instStarted /\ obs.instBefore[i].life # "destroyed"

\* the call just made was a Configure that found a session running
StartRefused == obs.op = "Configure" /\ \E j \in Instances : ActiveBefore(j)

\* C6: at most one instance is active at any time; a Start attempted while
\* a session is active is rejected: no log handle is opened, no seed state
\* is applied to the world, and the active session keeps its state.
C6_SingleSession ==
  /\ Cardinality({i \in Instances : Active(i)}) <= 1
  /\ StartRefused =>
       /\ ~obs.start /\ ~obs.opened /\ obs.seed = 0
       /\ inst[obs.inst].log = "null"
       /\ ~inst[obs.inst].instStarted
       /\ ecm = obs.before
       /\ \A j \in Instances \ {obs.inst} : inst[j] = obs.instBefore[j]
       /\ \E j \in Instances \ {obs.inst} : Active(j)

\* a second instance is configured on a log with a seed state while the
\* first session, which has played and cached a value, is running
C6_Witness ==
  /\ StartRefused
  /\ \E i \in DOMAIN msgs : IsStateType(msgs[i].type)
  /\ \E j \in Instances :
       /\ Active(j) /\ inst[j].log = "open"
       /\ DOMAIN inst[j].prevParticleEmitterCmds # {}

\* C7: the destructor clears the process-wide flag exactly when the
\* instance destroyed is the one that was started; the flag stays set while
\* the active session lives, and once the active instance is gone the next
\* Configure calls Start instead of refusing.
C7_TeardownClearsOwnFlag ==
  /\ obs.op = "Destroy" =>
       (started <=>
          (obs.startedBefore /\ ~obs.instBefore[obs.inst].instStarted))
  /\ (\E i \in Instances : Active(i)) => started
  /\ (obs.op = "Configure" /\ ~\E j \in Instances : ActiveBefore(j)) =>
       obs.start

\* a Start that succeeds after the instance that had been active was
\* destroyed
C7_Witness ==
  /\ StartCalled /\ obs.ret
  /\ \E j \in Instances \ {obs.inst} :
       obs.instBefore[j].instStarted /\ obs.instBefore[j].life = "destroyed"

\* instance i has no log to play: no playback path, or no state.tlog under
\* the path
NoLog(i) == sdf[i] = << >> \/ joinPaths(sdf[i], <<"state.tlog">>) \notin exists

\* C9: without a log root path, or without the state-log file under it,
\* Start fails: the instance is not started, the process-wide flag stays
\* clear, the world is as before, and every later Step of the instance does
\* nothing.
C9_NoLogNoSession ==
  /\ (StartCalled /\ NoLog(obs.inst)) =>
       /\ ~obs.ret /\ ~obs.opened
       /\ ~inst[obs.inst].instStarted
       /\ ~started
       /\ ecm = obs.before
  /\ (obs.op = "Update" /\ NoLog(obs.inst)) =>
       /\ ~obs.ran /\ ~obs.queried /\ ~obs.pause
       /\ ecm = obs.before
       /\ inst = obs.instBefore

\* a Step with dt # 0 of an instance whose Start failed for want of a log,
\* while no session is running
C9_Witness ==
  /\ obs.op = "Update" /\ NoLog(obs.inst)
  /\ inst[obs.inst].life = "configured"
  /\ info.dt # 0
  /\ ~started

\* the world after the seed scan of the Start just called
SeedApplied ==
  IF obs.seed = 0 THEN obs.before
  ELSE SetState(obs.before, ObsLog[obs.seed].entities)

\* C27: when the world holds no world entity after the seed scan, Start
\* fails: the instance is not started and the process-wide flag stays
\* clear, although the log handle has been created and the seed state, if
\* one was found, has been applied: the world is left as the seed scan
\* made it, without log statistics and with no URI rewritten.
C27_NoWorldEntityStartFails ==
  (StartScanned /\ WorldEntityOf(SeedApplied) = kNullEntity) =>
    /\ ~obs.ret
    /\ ~inst[obs.inst].instStarted
    /\ ~started
    /\ inst[obs.inst].log # "null"
    /\ ecm = SeedApplied
    /\ obs.rewrites = << >>

\* a Start that fails for want of a world entity after it has opened the
\* log and applied a seed state: the world is not as it was
C27_Witness ==
  /\ StartScanned /\ ~obs.ret
  /\ inst[obs.inst].log = "open"
  /\ obs.seed # 0
  /\ ecm # obs.before
  /\ WorldEntityOf(ecm) = kNullEntity

\* the Start just called found the state log and could not open it
OpenFailed ==
  /\ StartCalled
  /\ DbPath(ObsRoot) \in obs.existsBefore
  /\ ~Readable(DbPath(ObsRoot))

\* C28: a state log that exists and cannot be opened does not stop Start:
\* it goes on with the unopened log, which yields no message, so no seed
\* state is applied; when the world holds a world entity the instance is
\* started and the process-wide flag is set, and otherwise Start fails at
\* the world-entity check.
C28_OpenFailureNotFatal ==
  OpenFailed =>
    /\ obs.opened
    /\ inst[obs.inst].log = "unopened"
    /\ obs.seed = 0
    /\ Recorded(ecm) = Recorded(obs.before)
    /\ obs.ret <=> (WorldEntityOf(obs.before) # kNullEntity)
    /\ inst[obs.inst].instStarted <=> obs.ret
    /\ started <=> obs.ret

\* a Start that succeeds on a state log that cannot be opened, while the
\* log holds a state message that is never read
C28_Witness ==
  /\ OpenFailed /\ obs.ret
  /\ started /\ inst[obs.inst].instStarted
  /\ \E k \in DOMAIN msgs : IsStateType(msgs[k].type)
  /\ HasComp(ecm, WorldEntityOf(ecm), "LogPlaybackStatistics")

\* the time steps a host iteration can carry
Steps == {t - u : t, u \in Times}

\* C26: an Update of an instance that is not the active session (its Start
\* failed, was refused as a duplicate or was never called) does nothing,
\* whatever dt is: no log is queried, the world and the private data of
\* every instance, the cache included, stay as they are, no removal is
\* requested, no change is flagged and no pause is emitted.  The same holds
\* of Update on the private data of an instance that was never configured.
C26_InactiveStepNoOp ==
  /\ (obs.op = "Update" /\ ~obs.instBefore[obs.inst].instStarted) =>
       /\ ~obs.ran /\ ~obs.queried
       /\ obs.applied = << >> /\ obs.rewrites = << >>
       /\ ecm = obs.before
       /\ inst = obs.instBefore
       /\ obs.removed = {} /\ obs.flagged = {}
       /\ ~obs.pause
  /\ \A dt \in Steps :
       LET r == UpdateOp(NewInstance, ecm, [simTime |-> info.simTime, dt |-> dt],
                         exists, msgs)
       IN  /\ ~r.ran /\ ~r.queried /\ ~r.pause
           /\ r.ecm = ecm /\ r.d = NewInstance /\ r.removed = {}

\* a backward Update, at or past the end of a log that holds a record, of
\* an instance refused as a duplicate, right after the active session has
\* requested removals in the same iteration
C26_Witness ==
  /\ obs.op = "Update" /\ info.dt < 0
  /\ ~inst[obs.inst].instStarted
  /\ inst[obs.inst].logPath = <<"/log">>
  /\ \E j \in Instances \ {obs.inst} : Active(j)
  /\ msgs # << >> /\ info.simTime >= EndTime(msgs)
  /\ obs.before.toRemove # {}

\* the playback path of instance i, made absolute
PathOf(i) == absPath(sdf[i])

\* the path ends in the extension zip, in any case
ZipExt(p) == p # << >> /\ p[Len(p)] \in {"zip", "ZIP"}

\* the path is an archive that unpacks
Unpacks(p) == ZipExt(p) /\ p \in ZipOk

\* C25: when the playback path is a regular file, Configure calls Start
\* only if the file has a zip extension and unpacks, and then does call it
\* unless a session is running; for a file that is no zip or does not
\* unpack it returns without calling Start: no log is opened, the world
\* and the process-wide flag are as before, and the instance is never
\* started.
C25_ArchiveGate ==
  /\ (obs.op = "Configure" /\ PathOf(obs.inst) \in Files) =>
       /\ obs.start <=> (Unpacks(PathOf(obs.inst)) /\ ~obs.startedBefore)
       /\ ~Unpacks(PathOf(obs.inst)) =>
            /\ ~obs.opened /\ obs.seed = 0
            /\ inst[obs.inst].log = "null"
            /\ ~inst[obs.inst].instStarted
            /\ started = obs.startedBefore
            /\ ecm = obs.before
  /\ \A i \in Instances :
       (PathOf(i) \in Files /\ ~Unpacks(PathOf(i))) => ~inst[i].instStarted

\* a Configure, while no session is running, on a file with a zip
\* extension whose extraction fails, on a log that holds a seed state
C25_Witness ==
  /\ obs.op = "Configure" /\ ~obs.startedBefore
  /\ PathOf(obs.inst) \in Files
  /\ ZipExt(PathOf(obs.inst)) /\ ~Unpacks(PathOf(obs.inst))
  /\ inst[obs.inst].extDest # << >>
  /\ \E k \in DOMAIN msgs : IsStateType(msgs[k].type)

\* the log holds no State and no StateMap message
NoSeed(log) == \A i \in DOMAIN log : ~IsStateType(log[i].type)

====
